---------------------------- MODULE Spec2Model ----------------------------
(***************************************************************************)
(* A model of the preconditioners of the cmt library:                      *)
(*   CMT::AffinePreconditioner   (src/code/cmt/src/affinepreconditioner.cpp *)
(*                                lines 10-144)                            *)
(*   CMT::PCATransform           (same file, lines 146-253)                *)
(*   the Python binding          (src/code/cmt/src/preconditionerinterface  *)
(*                                .cpp)                                    *)
(*                                                                         *)
(* Numbers.  A C++ double is modelled as an exact rational <<n, d>> in      *)
(* lowest terms with d > 0: rounding is abstracted, everything else        *)
(* (the order of the operations, what is multiplied with what) is kept.    *)
(* A logarithm is kept symbolically: the double  ln(x)  is the record      *)
(* [ln |-> x], a sum of logarithms is the logarithm of the product, and     *)
(* the double 0.0 used as a logarithm is ln(1).                            *)
(*                                                                         *)
(* Matrices.  An Eigen matrix or array is [rows, cols, a] with a[i][j] the *)
(* coefficient of row i and column j; an Eigen vector is a sequence.       *)
(***************************************************************************)
EXTENDS Integers, Sequences, FiniteSets, TLC

(***************************************************************************)
(* Bounds of the model.                                                    *)
(***************************************************************************)
\* the largest number of samples (columns) of an array passed to a call
MaxCols == 2

(***************************************************************************)
(* Exact rational arithmetic.                                              *)
(***************************************************************************)
Abs(x) == IF x < 0 THEN -x ELSE x

RECURSIVE GCD(_, _)
GCD(a, b) == IF b = 0 THEN a ELSE GCD(b, a % b)

\* the rational n/d in lowest terms, d # 0
Rat(n, d) ==
    LET g == GCD(Abs(n), Abs(d))
        s == IF d < 0 THEN -1 ELSE 1
    IN  <<(s * n) \div g, (s * d) \div g>>

RI(n) == <<n, 1>>
R0 == RI(0)
R1 == RI(1)

RNeg(p) == <<-p[1], p[2]>>
RAbs(p) == <<Abs(p[1]), p[2]>>

\* <<0, 0>> is not a number, and stays so in every sum and product
RAdd(p, q) ==
    IF p = <<0, 0>> \/ q = <<0, 0>> THEN <<0, 0>>
    ELSE LET g == GCD(p[2], q[2])
         IN  Rat(p[1] * (q[2] \div g) + q[1] * (p[2] \div g), p[2] * (q[2] \div g))

RSub(p, q) == RAdd(p, RNeg(q))

\* the factors are cancelled crosswise before they are multiplied
RMul(p, q) ==
    IF p = <<0, 0>> \/ q = <<0, 0>> THEN <<0, 0>>
    ELSE LET g1 == GCD(Abs(p[1]), q[2])
             g2 == GCD(Abs(q[1]), p[2])
         IN  Rat((p[1] \div g1) * (q[1] \div g2), (p[2] \div g2) * (q[2] \div g1))

\* q # 0
RInv(q) == IF q[1] < 0 THEN <<-q[2], -q[1]>> ELSE <<q[2], q[1]>>
RDiv(p, q) == RMul(p, RInv(q))

RLt(p, q) == RSub(p, q)[1] < 0
RGt(p, q) == RLt(q, p)

\* the integer square root of a perfect square, by bisection
RECURSIVE ISqrtIn(_, _, _)
ISqrtIn(n, lo, hi) ==
    IF lo >= hi THEN lo
    ELSE LET mid == (lo + hi + 1) \div 2
         IN  IF mid <= n \div mid THEN ISqrtIn(n, mid, hi)
             ELSE ISqrtIn(n, lo, mid - 1)

ISqrt(n) == ISqrtIn(n, 0, n)

\* the square root of a rational whose numerator and denominator are squares
RSqrt(q) == <<ISqrt(q[1]), ISqrt(q[2])>>

\* the sum f[1] + ... + f[n]
RECURSIVE RSumTo(_, _)
RSumTo(f, n) == IF n = 0 THEN R0 ELSE RAdd(RSumTo(f, n - 1), f[n])

\* the product f[1] * ... * f[n]
RECURSIVE RProdTo(_, _)
RProdTo(f, n) == IF n = 0 THEN R1 ELSE RMul(RProdTo(f, n - 1), f[n])

(***************************************************************************)
(* Matrices and vectors (Eigen::MatrixXd, ArrayXXd, VectorXd).             *)
(***************************************************************************)
Zero(r, c) == [rows |-> r, cols |-> c, a |-> [i \in 1..r |-> [j \in 1..c |-> R0]]]

Identity(r, c) ==
    [rows |-> r, cols |-> c,
     a |-> [i \in 1..r |-> [j \in 1..c |-> IF i = j THEN R1 ELSE R0]]]

ZeroVec(n) == [i \in 1..n |-> R0]

\* A * B, A.cols = B.rows
MatMul(A, B) ==
    [rows |-> A.rows, cols |-> B.cols,
     a |-> [i \in 1..A.rows |-> [j \in 1..B.cols |->
              RSumTo([k \in 1..A.cols |-> RMul(A.a[i][k], B.a[k][j])], A.cols)]]]

MatAdd(A, B) ==
    [rows |-> A.rows, cols |-> A.cols,
     a |-> [i \in 1..A.rows |-> [j \in 1..A.cols |-> RAdd(A.a[i][j], B.a[i][j])]]]

MatSub(A, B) ==
    [rows |-> A.rows, cols |-> A.cols,
     a |-> [i \in 1..A.rows |-> [j \in 1..A.cols |-> RSub(A.a[i][j], B.a[i][j])]]]

Transpose(A) ==
    [rows |-> A.cols, cols |-> A.rows,
     a |-> [i \in 1..A.cols |-> [j \in 1..A.rows |-> A.a[j][i]]]]

\* X.colwise() - v and X.colwise() + v, Len(v) = X.rows
ColwiseSub(X, v) ==
    [rows |-> X.rows, cols |-> X.cols,
     a |-> [i \in 1..X.rows |-> [j \in 1..X.cols |-> RSub(X.a[i][j], v[i])]]]

ColwiseAdd(X, v) ==
    [rows |-> X.rows, cols |-> X.cols,
     a |-> [i \in 1..X.rows |-> [j \in 1..X.cols |-> RAdd(X.a[i][j], v[i])]]]

\* v.asDiagonal()
AsDiagonal(v) ==
    [rows |-> Len(v), cols |-> Len(v),
     a |-> [i \in 1..Len(v) |-> [j \in 1..Len(v) |-> IF i = j THEN v[i] ELSE R0]]]


\* the matrix with the integer rows given
IntMat(rws) ==
    [rows |-> Len(rws), cols |-> IF Len(rws) = 0 THEN 0 ELSE Len(rws[1]),
     a |-> [i \in 1..Len(rws) |-> [j \in 1..Len(rws[i]) |-> RI(rws[i][j])]]]

\* the matrix with the rational rows given
RatMat(rws) ==
    [rows |-> Len(rws), cols |-> IF Len(rws) = 0 THEN 0 ELSE Len(rws[1]), a |-> rws]

(***************************************************************************)
(* mPreOut.partialPivLu().matrixLU(): Eigen's in-place LU decomposition    *)
(* with partial pivoting.  Step k takes the first row of largest absolute  *)
(* value in column k among the rows k.., swaps it up unless it is zero,    *)
(* divides the column below the pivot by it and subtracts the outer        *)
(* product from the lower right block.                                     *)
(***************************************************************************)
PivotRow(A, k) ==
    CHOOSE p \in k..A.rows :
        /\ \A i \in k..A.rows : ~RLt(RAbs(A.a[p][k]), RAbs(A.a[i][k]))
        /\ \A i \in k..(p - 1) : RLt(RAbs(A.a[i][k]), RAbs(A.a[p][k]))

SwapRows(A, k, p) ==
    [A EXCEPT !.a = [i \in 1..A.rows |->
                        IF i = k THEN A.a[p] ELSE IF i = p THEN A.a[k] ELSE A.a[i]]]

Eliminate(A, k) ==
    [A EXCEPT !.a = [i \in 1..A.rows |-> [j \in 1..A.cols |->
        IF i <= k \/ j < k THEN A.a[i][j]
        ELSE IF j = k THEN RDiv(A.a[i][k], A.a[k][k])
        ELSE RSub(A.a[i][j], RMul(RDiv(A.a[i][k], A.a[k][k]), A.a[k][j]))]]]

RECURSIVE LUFrom(_, _)
LUFrom(A, k) ==
    IF k > A.rows THEN A
    ELSE LET p == PivotRow(A, k)
         IN  IF A.a[p][k] = R0 THEN LUFrom(A, k + 1)
             ELSE LUFrom(Eliminate(SwapRows(A, k, p), k), k + 1)

MatrixLU(A) == LUFrom(A, 1)

Diagonal(A) == [i \in 1..A.rows |-> A.a[i][i]]

\* a faulty variant: the absolute value is not taken
LogSumNoAbs(v) == [ln |-> RProdTo([i \in 1..Len(v) |-> v[i]], Len(v))]

\* v.array().abs().log().sum(): the sum of the logarithms is the logarithm of
\* the product; log(0) = -inf is ln(0)
LogAbsSum(v) == [ln |-> RProdTo([i \in 1..Len(v) |-> RAbs(v[i])], Len(v))]

\* the double 0.0 where a logarithm is meant
LnZero == [ln |-> R1]

\* the sum of two logarithms
LnAdd(x, y) == [ln |-> RMul(x.ln, y.ln)]

(***************************************************************************)
(* The arrays the callers pass.  Each column is one of two sample vectors. *)
(***************************************************************************)
Dims == {1, 2}

VecA(d) == [i \in 1..d |-> RI(i)]
VecB(d) == [i \in 1..d |-> Rat(1 - 2 * i, 2)]

\* the d x n arrays whose columns are sample vectors
Data(d, n) ==
    { [rows |-> d, cols |-> n, a |-> [i \in 1..d |-> [j \in 1..n |-> c[j][i]]]] :
        c \in [1..n -> {VecA(d), VecB(d)}] }

Arrays == UNION { Data(d, n) : d \in Dims, n \in 0..MaxCols }

\* two arrays of each shape: equal columns, and alternating columns
Probes(d, n) ==
    { [rows |-> d, cols |-> n, a |-> [i \in 1..d |-> [j \in 1..n |-> VecA(d)[i]]]],
      [rows |-> d, cols |-> n,
       a |-> [i \in 1..d |-> [j \in 1..n |->
                IF j % 2 = 1 THEN VecB(d)[i] ELSE RI(j - i)]]] }

(***************************************************************************)
(* The parameter tuples handed to the seven-argument constructor:          *)
(* an input side (meanIn, preIn, preInInv), an output side (meanOut,       *)
(* preOut, preOutInv) and the predictor of the matching shape.             *)
(***************************************************************************)
MeanInOf(d) == [i \in 1..d |-> RI(3 - 2 * i)]
MeanOutOf(d) == [i \in 1..d |-> Rat(4 * i - 3, 2)]

InSides ==
    { \* 1 x 1, exact inverse
      [meanIn |-> MeanInOf(1), preIn |-> IntMat(<< <<2>> >>),
       preInInv |-> RatMat(<< <<Rat(1, 2)>> >>)],
      \* 2 x 2, exact inverse
      [meanIn |-> MeanInOf(2),
       preIn |-> RatMat(<< <<RI(2), R0>>, <<R1, Rat(1, 2)>> >>),
       preInInv |-> RatMat(<< <<Rat(1, 2), R0>>, <<RI(-1), RI(2)>> >>)],
      \* 2 x 2, preInInv is not the inverse of preIn
      [meanIn |-> MeanInOf(2),
       preIn |-> IntMat(<< <<1, 1>>, <<0, 2>> >>),
       preInInv |-> IntMat(<< <<1, 0>>, <<0, 1>> >>)],
      \* 1 x 2 (a projection) with a right inverse
      [meanIn |-> MeanInOf(2),
       preIn |-> IntMat(<< <<1, 2>> >>),
       preInInv |-> IntMat(<< <<1>>, <<0>> >>)] }

OutSides ==
    { \* 1 x 1, negative determinant
      [meanOut |-> MeanOutOf(1), preOut |-> IntMat(<< <<-2>> >>),
       preOutInv |-> RatMat(<< <<Rat(-1, 2)>> >>)],
      \* 2 x 2, exact inverse, the first pivot is a row exchange
      [meanOut |-> MeanOutOf(2),
       preOut |-> IntMat(<< <<0, 2>>, <<1, 1>> >>),
       preOutInv |-> RatMat(<< <<Rat(-1, 2), R1>>, <<Rat(1, 2), R0>> >>)],
      \* 2 x 2, preOutInv is not the inverse of preOut
      [meanOut |-> MeanOutOf(2),
       preOut |-> IntMat(<< <<1, 3>>, <<2, 4>> >>),
       preOutInv |-> IntMat(<< <<1, 0>>, <<0, 1>> >>)],
      \* 2 x 2, singular
      [meanOut |-> MeanOutOf(2),
       preOut |-> IntMat(<< <<1, 2>>, <<2, 4>> >>),
       preOutInv |-> IntMat(<< <<1, 0>>, <<0, 1>> >>)] }

PredictorOf(r, c) ==
    [rows |-> r, cols |-> c, a |-> [i \in 1..r |-> [j \in 1..c |-> RI(i - 2 * j)]]]

AffineParams ==
    { [meanIn |-> s.meanIn, meanOut |-> t.meanOut, preIn |-> s.preIn,
       preInInv |-> s.preInInv, preOut |-> t.preOut, preOutInv |-> t.preOutInv,
       predictor |-> PredictorOf(t.preOut.rows, s.preIn.rows)] :
        s \in InSides, t \in OutSides }

\* the dimensions of a parameter tuple agree with one another
ConsistentTuple(p) ==
    /\ p.preIn.cols = Len(p.meanIn)
    /\ p.preInInv.rows = Len(p.meanIn) /\ p.preInInv.cols = p.preIn.rows
    /\ p.preOut.rows = Len(p.meanOut) /\ p.preOut.cols = Len(p.meanOut)
    /\ p.preOutInv.rows = Len(p.meanOut) /\ p.preOutInv.cols = Len(p.meanOut)
    /\ p.predictor.rows = p.preOut.rows /\ p.predictor.cols = p.preIn.rows

\* Tuples whose dimensions do not agree: a mean of the wrong length, an
\* inverse of the wrong shape.  In each of them preOut is square and
\* preOut * predictor * preIn is a product of matrices that fit, so that the
\* constructor's own two computations are defined; tuples on which Eigen's LU
\* or product is undefined are left out.
InconsistentParams ==
    LET p == CHOOSE q \in AffineParams :
                 /\ q.preIn = IntMat(<< <<1, 2>> >>)
                 /\ q.preOut = IntMat(<< <<0, 2>>, <<1, 1>> >>)
    IN  { [p EXCEPT !.meanIn = MeanInOf(1)],
          [p EXCEPT !.meanOut = MeanOutOf(1)],
          [p EXCEPT !.preInInv = IntMat(<< <<1>> >>)],
          [p EXCEPT !.preOutInv = RatMat(<< <<Rat(-1, 2)>> >>)] }

(***************************************************************************)
(* The state: the fields of one preconditioner object, and the last call   *)
(* made on it with what the call returned.                                 *)
(***************************************************************************)
VARIABLES
    kind,            \* "new" (no instance yet), "affine" or "pca"
    mMeanIn, mMeanOut, mPreIn, mPreInInv, mPreOut, mPreOutInv, mPredictor,
    mLogJacobian, mGradTransform,
    mEigenvalues,    \* PCATransform only
    call,            \* [op, args, error, result]: the call that has just returned,
                     \* or Idle once the caller has taken its result
    callers          \* the threads inside an operation, statement by statement

fields == <<mMeanIn, mMeanOut, mPreIn, mPreInInv, mPreOut, mPreOutInv, mPredictor,
            mLogJacobian, mGradTransform, mEigenvalues>>

vars == <<kind, fields, call, callers>>

\* no result: what a failed call leaves
NoResult == <<>>
NoError == <<>>

\* the messages of the exceptions thrown
DimensionMismatch == "Number of inputs and outputs must be the same."
InputDimensionError == "Input has wrong dimensionality."
OutputDimensionError == "Output has wrong dimensionality."

\* a value returned, or a CMT::Exception thrown
Value(r) == [error |-> NoError, result |-> <<r>>]
Throw(message) == [error |-> <<message>>, result |-> NoResult]

Outcome(op, args, v) ==
    [op |-> op, args |-> args, error |-> v.error, result |-> v.result]

Idle == [op |-> "idle", args |-> <<>>, error |-> NoError, result |-> NoResult]

\* the threads that call the operations of one instance at the same time
Callers == {1, 2}

\* a thread that is in no operation; inside one, pc is the statement it is at
\* and local holds the local variable assigned so far
Outside == [pc |-> "outside", op |-> "none", args |-> <<>>, local |-> <<>>,
            error |-> NoError, result |-> NoResult]

(***************************************************************************)
(* Preconditioner_new: the object holds no instance; the default           *)
(* constructed Eigen members are empty.                                    *)
(***************************************************************************)
Init ==
    /\ kind = "new"
    /\ mMeanIn = <<>>
    /\ mMeanOut = <<>>
    /\ mPreIn = Zero(0, 0)
    /\ mPreInInv = Zero(0, 0)
    /\ mPreOut = Zero(0, 0)
    /\ mPreOutInv = Zero(0, 0)
    /\ mPredictor = Zero(0, 0)
    /\ mLogJacobian = LnZero
    /\ mGradTransform = Zero(0, 0)
    /\ mEigenvalues = <<>>
    /\ call = Idle
    /\ callers = [t \in Callers |-> Outside]

(***************************************************************************)
(* AffinePreconditioner(meanIn, meanOut, preIn, preInInv, preOut,          *)
(* preOutInv, predictor)                                                   *)
(***************************************************************************)
\* the member initializers, lines 38-46
MemberInitializers(p) ==
    /\ mMeanIn' = p.meanIn
    /\ mMeanOut' = p.meanOut
    /\ mPreIn' = p.preIn
    /\ mPreInInv' = p.preInInv
    /\ mPreOut' = p.preOut
    /\ mPreOutInv' = p.preOutInv
    /\ mPredictor' = p.predictor
    /\ mLogJacobian' = LogAbsSum(Diagonal(MatrixLU(p.preOut)))
    /\ mGradTransform' = MatMul(MatMul(p.preOut, p.predictor), p.preIn)

AffinePreconditioner(p) ==
    /\ kind = "new"
    /\ kind' = "affine"
    /\ MemberInitializers(p)
    /\ mEigenvalues' = <<>>
    /\ call' = [op |-> "AffinePreconditioner", args |-> <<p>>,
                error |-> NoError, result |-> NoResult]
    /\ UNCHANGED callers

(***************************************************************************)
(* PCATransform(input, output, varExplained, numPCs) and                   *)
(* PCATransform(input, varExplained, numPCs, dimOut): both call            *)
(* initialize(input, varExplained, numPCs, dimOut).                        *)
(*                                                                         *)
(* covariance(input) and Eigen's SelfAdjointEigenSolver are outside the    *)
(* files modelled.  What the solver returns for the covariance of the      *)
(* input is an input of the model: ascending eigenvalues, none negative    *)
(* (a covariance is positive semidefinite), and orthonormal eigenvectors   *)
(* in the columns of a matrix.  The eigenvalues are multiples of 2.5e-9,   *)
(* around the floor of 1e-8 that initialize applies; those at or above     *)
(* the floor are squares, so that their square roots are rational.         *)
(***************************************************************************)
\* the floor below which initialize takes an eigenvalue for 1
EigFloor == Rat(1, 100000000)

\* 0, 2.5e-9 (below the floor), 1e-8 (the floor) and 4e-8
EigVals == {R0, Rat(1, 400000000), Rat(1, 100000000), Rat(4, 100000000)}

\* the ascending spectra of n eigenvalues
Spectra(n) ==
    { e \in [1..n -> EigVals] : \A i \in 1..(n - 1) : ~RLt(e[i + 1], e[i]) }

\* orthonormal bases of dimension n: the unit vectors, and for n >= 2 the
\* unit vectors with the last two rotated (cosine 3/5, sine 4/5)
Rotation(n) ==
    [rows |-> n, cols |-> n,
     a |-> [i \in 1..n |-> [j \in 1..n |->
        IF i < n - 1 \/ j < n - 1 THEN (IF i = j THEN R1 ELSE R0)
        ELSE IF i = j THEN Rat(3, 5)
        ELSE IF i < j THEN Rat(-4, 5) ELSE Rat(4, 5)]]]
Bases(n) == {Identity(n, n)} \cup (IF n >= 2 THEN {Rotation(n)} ELSE {})

\* what eigenSolver.compute(covXX) may leave for an input of n rows
EigenSolutions(n) ==
    { [eigenvalues |-> e, eigenvectors |-> v] : e \in Spectra(n), v \in Bases(n) }

\* a double that may be NaN: the quotient 0/0 of the variances of a constant input
NaN == <<0, 0>>

\* The covariance of an input of no columns is not determined by the sources
\* given (its mean is 0/0), and neither is what the solver makes of it: any of
\* the answers above, or eigenvalues and eigenvectors that are not numbers.
NaNSolution(n) ==
    [eigenvalues |-> [i \in 1..n |-> NaN],
     eigenvectors |-> [rows |-> n, cols |-> n,
                       a |-> [i \in 1..n |-> [j \in 1..n |-> NaN]]]]

SolverAnswers(input) ==
    IF input.cols = 0 THEN EigenSolutions(input.rows) \cup {NaNSolution(input.rows)}
    ELSE EigenSolutions(input.rows)
FDiv(p, q) == IF p = NaN \/ q = NaN \/ q = R0 THEN NaN ELSE RDiv(p, q)
FMul(p, q) == IF p = NaN \/ q = NaN THEN NaN ELSE RMul(p, q)
FAdd(p, q) == IF p = NaN \/ q = NaN THEN NaN ELSE RAdd(p, q)
FGt(p, q) == p # NaN /\ q # NaN /\ RGt(p, q)

\* v.tail(k), m.rightCols(k), v.cwiseSqrt(), v.cwiseInverse(), v.sum()
VecTail(v, k) == [i \in 1..k |-> v[Len(v) - k + i]]
RightCols(m, k) ==
    [rows |-> m.rows, cols |-> k,
     a |-> [i \in 1..m.rows |-> [j \in 1..k |-> m.a[i][m.cols - k + j]]]]
CwiseSqrt(v) == [i \in 1..Len(v) |-> RSqrt(v[i])]
\* (the scales are not inverted)
CwiseInverseOmitted(v) == v
CwiseInverse(v) == [i \in 1..Len(v) |-> RInv(v[i])]
VecSum(v) == RSumTo(v, Len(v))

\* input.rowwise().mean(): the sum of each row over the number of columns,
\* 0/0 for an input of no columns
RowwiseMean(input) ==
    [i \in 1..input.rows |->
        FDiv(RSumTo(input.a[i], input.cols), RI(input.cols))]

\* Faulty variants of the selection of the number of components.
\* the loop stops when the variance explained is below the threshold
RECURSIVE ExplainedWalkBelow(_, _, _, _, _, _)
ExplainedWalkBelow(eigenvalues, totalVariance, varExplained, i, numPCs, varExplainedSoFar) ==
    IF i < 1 THEN numPCs
    ELSE LET soFar == FAdd(varExplainedSoFar,
                           FMul(FDiv(eigenvalues[i], totalVariance), RI(100)))
         IN  IF FGt(varExplained, soFar) THEN numPCs + 1
             ELSE ExplainedWalkBelow(eigenvalues, totalVariance, varExplained,
                                     i - 1, numPCs + 1, soFar)

\* the loop leaves out the smallest eigenvalue (i > 0 for i >= 0)
RECURSIVE ExplainedWalkShort(_, _, _, _, _, _)
ExplainedWalkShort(eigenvalues, totalVariance, varExplained, i, numPCs, varExplainedSoFar) ==
    IF i <= 1 THEN numPCs
    ELSE LET soFar == FAdd(varExplainedSoFar,
                           FMul(FDiv(eigenvalues[i], totalVariance), RI(100)))
         IN  IF FGt(soFar, varExplained) THEN numPCs + 1
             ELSE ExplainedWalkShort(eigenvalues, totalVariance, varExplained,
                                     i - 1, numPCs + 1, soFar)

\* the loop of lines 229-235, from the eigenvalue of index i (1-based) down
RECURSIVE ExplainedWalk(_, _, _, _, _, _)
ExplainedWalk(eigenvalues, totalVariance, varExplained, i, numPCs, varExplainedSoFar) ==
    IF i < 1 THEN numPCs
    ELSE LET soFar == FAdd(varExplainedSoFar,
                           FMul(FDiv(eigenvalues[i], totalVariance), RI(100)))
         IN  IF FGt(soFar, varExplained) THEN numPCs + 1
             ELSE ExplainedWalk(eigenvalues, totalVariance, varExplained,
                                i - 1, numPCs + 1, soFar)

SelectNumPCsBelow(eigenvalues, varExplained, numPCs) ==
    IF numPCs < 0
    THEN ExplainedWalkBelow(eigenvalues, VecSum(eigenvalues), varExplained,
                            Len(eigenvalues), 0, R0)
    ELSE IF numPCs > Len(eigenvalues) THEN Len(eigenvalues)
    ELSE numPCs

SelectNumPCsShort(eigenvalues, varExplained, numPCs) ==
    IF numPCs < 0
    THEN ExplainedWalkShort(eigenvalues, VecSum(eigenvalues), varExplained,
                            Len(eigenvalues), 0, R0)
    ELSE IF numPCs > Len(eigenvalues) THEN Len(eigenvalues)
    ELSE numPCs

\* the loop stops when the variance explained reaches the threshold
RECURSIVE ExplainedWalkAtThreshold(_, _, _, _, _, _)
ExplainedWalkAtThreshold(eigenvalues, totalVariance, varExplained, i, numPCs, varExplainedSoFar) ==
    IF i < 1 THEN numPCs
    ELSE LET soFar == FAdd(varExplainedSoFar,
                           FMul(FDiv(eigenvalues[i], totalVariance), RI(100)))
         IN  IF soFar # NaN /\ ~RLt(soFar, varExplained) THEN numPCs + 1
             ELSE ExplainedWalkAtThreshold(eigenvalues, totalVariance, varExplained,
                                           i - 1, numPCs + 1, soFar)

SelectNumPCsAtThreshold(eigenvalues, varExplained, numPCs) ==
    IF numPCs < 0
    THEN ExplainedWalkAtThreshold(eigenvalues, VecSum(eigenvalues), varExplained,
                                  Len(eigenvalues), 0, R0)
    ELSE IF numPCs > Len(eigenvalues) THEN Len(eigenvalues)
    ELSE numPCs

\* an explicit count only caps the count that the threshold gives
SelectNumPCsThresholdFirst(eigenvalues, varExplained, numPCs) ==
    LET walked == ExplainedWalk(eigenvalues, VecSum(eigenvalues), varExplained,
                                Len(eigenvalues), 0, R0)
    IN  IF numPCs < 0 \/ numPCs > walked THEN walked ELSE numPCs

\* lines 224-238: the number of components kept
SelectNumPCs(eigenvalues, varExplained, numPCs) ==
    IF numPCs < 0
    THEN ExplainedWalk(eigenvalues, VecSum(eigenvalues), varExplained,
                       Len(eigenvalues), 0, R0)
    ELSE IF numPCs > Len(eigenvalues) THEN Len(eigenvalues)
    ELSE numPCs

\* an eigenvalue equal to the floor is taken for 1 as well
FlooredInclusive(eigenvalues) ==
    [i \in 1..Len(eigenvalues) |->
        IF ~RGt(eigenvalues[i], EigFloor) THEN R1 ELSE eigenvalues[i]]

\* lines 243-246: directions of zero variance are not touched
Floored(eigenvalues) ==
    [i \in 1..Len(eigenvalues) |->
        IF RLt(eigenvalues[i], EigFloor) THEN R1 ELSE eigenvalues[i]]

\* q = [input, varExplained, numPCs, dimOut, solver]
PCATransform(q) ==
    /\ kind = "new"
    /\ kind' = "pca"
    /\ mMeanOut' = ZeroVec(q.dimOut)
    /\ mPreOut' = Identity(q.dimOut, q.dimOut)
    /\ mPreOutInv' = Identity(q.dimOut, q.dimOut)
    /\ mGradTransform' = Zero(q.dimOut, q.input.rows)
    /\ mLogJacobian' = LnZero
    /\ IF q.input.rows < 1
       THEN UNCHANGED <<mMeanIn, mEigenvalues, mPredictor, mPreIn, mPreInInv>>
       ELSE LET numPCs == SelectNumPCs(q.solver.eigenvalues, q.varExplained, q.numPCs)
                tmp == Floored(q.solver.eigenvalues)
            IN  /\ mMeanIn' = RowwiseMean(q.input)
                /\ mEigenvalues' = q.solver.eigenvalues
                /\ mPredictor' = Zero(q.dimOut, numPCs)
                /\ mPreIn' = MatMul(AsDiagonal(CwiseInverse(CwiseSqrt(VecTail(tmp, numPCs)))),
                                    Transpose(RightCols(q.solver.eigenvectors, numPCs)))
                /\ mPreInInv' = MatMul(RightCols(q.solver.eigenvectors, numPCs),
                                       AsDiagonal(CwiseSqrt(VecTail(tmp, numPCs))))
    /\ call' = [op |-> "PCATransform", args |-> <<q>>,
                error |-> NoError, result |-> NoResult]
    /\ UNCHANGED callers

\* the arguments of the construction from data
Thresholds == {RI(0), RI(50), RI(80), RI(99), RI(100)}
NumPCs == {-1, 0, 1, 2, 3, 4}
PCADimOuts == {0, 2}
PCAInputs ==
    { Zero(0, 1),
      Zero(1, 0),
      IntMat(<< <<1, 2>> >>),
      IntMat(<< <<1, 2>>, <<0, 3>> >>),
      IntMat(<< <<1, 2>>, <<0, 3>>, <<-1, -1>> >>) }

PCAArgumentsFor(x) ==
    { [input |-> x, varExplained |-> t, numPCs |-> k, dimOut |-> d, solver |-> r] :
        t \in Thresholds, k \in NumPCs, d \in PCADimOuts,
        r \in SolverAnswers(x) }

PCAArguments == UNION { PCAArgumentsFor(x) : x \in PCAInputs }

\* a few of them, for the runs that make every call on what is built
PCAExamples ==
    { q \in PCAArgumentsFor(IntMat(<< <<1, 2>>, <<0, 3>> >>)) :
        /\ q.varExplained = RI(99) /\ q.numPCs \in {-1, 1} /\ q.dimOut = 2
        /\ q.solver.eigenvectors = Rotation(2)
        /\ q.solver.eigenvalues[2] = Rat(4, 100000000)
        /\ q.solver.eigenvalues[1] \in {Rat(1, 400000000), Rat(1, 100000000)} }

dimIn == Len(mMeanIn)
dimInPre == mPreIn.rows
dimOut == Len(mMeanOut)
dimOutPre == mPreOut.rows

(***************************************************************************)
(* The operations of an instance.  Each is the value the C++ function      *)
(* returns, or the exception it throws, for the fields of the state.       *)
(***************************************************************************)
\* Faulty variants of the operations below; each property is checked to fail
\* when the operation is replaced by its variant.
\* the predictor multiplies the centred raw input
TransformPredictorOnRaw(input, output) ==
    IF input.cols # output.cols THEN Throw(DimensionMismatch)
    ELSE IF input.rows # dimIn THEN Throw(InputDimensionError)
    ELSE IF output.rows # dimOut THEN Throw(OutputDimensionError)
    ELSE LET inputTr == MatMul(mPreIn, ColwiseSub(input, mMeanIn))
             outputTr == MatMul(mPreOut,
                            MatSub(ColwiseSub(output, mMeanOut),
                                   MatMul(mPredictor, ColwiseSub(input, mMeanIn))))
         IN  Value(<<inputTr, outputTr>>)

\* the rows of the input are checked before the column counts
TransformChecksReordered(input, output) ==
    IF input.rows # dimIn THEN Throw(InputDimensionError)
    ELSE IF input.cols # output.cols THEN Throw(DimensionMismatch)
    ELSE IF output.rows # dimOut THEN Throw(OutputDimensionError)
    ELSE LET inputTr == MatMul(mPreIn, ColwiseSub(input, mMeanIn))
             outputTr == MatMul(mPreOut,
                            MatSub(ColwiseSub(output, mMeanOut),
                                   MatMul(mPredictor, inputTr)))
         IN  Value(<<inputTr, outputTr>>)

\* the pair is returned as (output, input)
InverseSwappedPair(input, output) ==
    IF input.cols # output.cols THEN Throw(DimensionMismatch)
    ELSE IF input.rows # dimInPre THEN Throw(InputDimensionError)
    ELSE IF output.rows # dimOutPre THEN Throw(OutputDimensionError)
    ELSE LET outputTr == ColwiseAdd(MatAdd(MatMul(mPreOutInv, output),
                                           MatMul(mPredictor, input)), mMeanOut)
             inputTr == ColwiseAdd(MatMul(mPreInInv, input), mMeanIn)
         IN  Value(<<outputTr, inputTr>>)

\* the predictor multiplies the reconstructed raw input
InverseFromRawInput(input, output) ==
    IF input.cols # output.cols THEN Throw(DimensionMismatch)
    ELSE IF input.rows # dimInPre THEN Throw(InputDimensionError)
    ELSE IF output.rows # dimOutPre THEN Throw(OutputDimensionError)
    ELSE LET inputTr == ColwiseAdd(MatMul(mPreInInv, input), mMeanIn)
             outputTr == ColwiseAdd(MatAdd(MatMul(mPreOutInv, output),
                                           MatMul(mPredictor, inputTr)), mMeanOut)
         IN  Value(<<inputTr, outputTr>>)

\* operator()(input, output)
Transform(input, output) ==
    IF input.cols # output.cols THEN Throw(DimensionMismatch)
    ELSE IF input.rows # dimIn THEN Throw(InputDimensionError)
    ELSE IF output.rows # dimOut THEN Throw(OutputDimensionError)
    ELSE LET inputTr == MatMul(mPreIn, ColwiseSub(input, mMeanIn))
             outputTr == MatMul(mPreOut,
                            MatSub(ColwiseSub(output, mMeanOut),
                                   MatMul(mPredictor, inputTr)))
         IN  Value(<<inputTr, outputTr>>)

\* inverse(input, output)
Inverse(input, output) ==
    IF input.cols # output.cols THEN Throw(DimensionMismatch)
    ELSE IF input.rows # dimInPre THEN Throw(InputDimensionError)
    ELSE IF output.rows # dimOutPre THEN Throw(OutputDimensionError)
    ELSE LET outputTr == ColwiseAdd(MatAdd(MatMul(mPreOutInv, output),
                                           MatMul(mPredictor, input)), mMeanOut)
             inputTr == ColwiseAdd(MatMul(mPreInInv, input), mMeanIn)
         IN  Value(<<inputTr, outputTr>>)

\* the mean is not subtracted
TransformInputUncentred(input) ==
    IF input.rows # dimIn THEN Throw(InputDimensionError)
    ELSE Value(MatMul(mPreIn, input))

\* operator()(input)
TransformInput(input) ==
    IF input.rows # dimIn THEN Throw(InputDimensionError)
    ELSE Value(MatMul(mPreIn, ColwiseSub(input, mMeanIn)))

\* inverse(input)
InverseInput(input) ==
    IF input.rows # dimInPre THEN Throw(InputDimensionError)
    ELSE Value(ColwiseAdd(MatMul(mPreInInv, input), mMeanIn))

\* logJacobian(input, output): a row of output.cols() zeros plus mLogJacobian
LogJacobian(input, output) ==
    Value([j \in 1..output.cols |-> LnAdd(LnZero, mLogJacobian)])

\* the contribution of the output gradient is added
AdjustGradientAdded(inputGradient, outputGradient) ==
    Value(<<MatAdd(MatMul(Transpose(mPreIn), inputGradient),
                   MatMul(Transpose(mGradTransform), outputGradient)),
            MatMul(Transpose(mPreOut), outputGradient)>>)

\* adjustGradient(inputGradient, outputGradient)
AdjustGradient(inputGradient, outputGradient) ==
    Value(<<MatSub(MatMul(Transpose(mPreIn), inputGradient),
                   MatMul(Transpose(mGradTransform), outputGradient)),
            MatMul(Transpose(mPreOut), outputGradient)>>)

(***************************************************************************)
(* The Python binding.  A Python object is an ndarray holding a matrix,    *)
(* None, some object that does not convert to an array of doubles, or      *)
(* Absent: the C pointer 0 of an argument that was not passed.             *)
(***************************************************************************)
Absent == [py |-> "absent"]
None == [py |-> "None"]
Unconvertible == [py |-> "object"]
Null == [py |-> "NULL"]

\* PyArray_FromMatrixXd and PyArray_ToMatrixXd: the array of a matrix, and back
PyArray_FromMatrixXd(m) == [py |-> "ndarray", m |-> m]
PyArray_ToMatrixXd(o) == o.m

PyArrays == { PyArray_FromMatrixXd(m) : m \in Arrays }

\* PyArray_FROM_OTF(o, NPY_DOUBLE, ...): the array, or 0 where o does not convert
PyArray_FROM_OTF(o) == IF o.py = "ndarray" THEN o ELSE Null

\* Py_BuildValue("(OO)", a, b)
PyTuple(a, b) == [py |-> "tuple", items |-> <<a, b>>]

\* PyErr_SetString(type, message); return 0
PyRaise(type, message) == [error |-> <<type, message>>, result |-> NoResult]

\* (the messages, less the quotes around ndarray)
InputAndOutputTypeError == "Input and output should be of type ndarray."
InputTypeError == "Input should be of type ndarray."
\* what PyArg_ParseTupleAndKeywords reports when the required argument is missing
MissingArgument == "Required argument 'input' (pos 1) not found"

\* Preconditioner_call(self, args, kwds) with the arguments input and output
Preconditioner_call(input, output) ==
    IF input = Absent THEN PyRaise("TypeError", MissingArgument)
    ELSE IF output # Absent /\ output # None
    THEN LET in == PyArray_FROM_OTF(input)
             out == PyArray_FROM_OTF(output)
         IN  IF in = Null \/ out = Null
             THEN PyRaise("TypeError", InputAndOutputTypeError)
             ELSE LET data == Transform(PyArray_ToMatrixXd(in), PyArray_ToMatrixXd(out))
                  IN  IF data.error # NoError
                      THEN PyRaise("RuntimeError", data.error[1])
                      ELSE Value(PyTuple(PyArray_FromMatrixXd(data.result[1][1]),
                                         PyArray_FromMatrixXd(data.result[1][2])))
    ELSE LET in == PyArray_FROM_OTF(input)
         IN  IF in = Null THEN PyRaise("TypeError", InputTypeError)
             ELSE LET data == TransformInput(PyArray_ToMatrixXd(in))
                  IN  IF data.error # NoError
                      THEN PyRaise("RuntimeError", data.error[1])
                      ELSE Value(PyArray_FromMatrixXd(data.result[1]))

\* a read or a write through a null pointer ends the process
Fault == <<"SIGSEGV", "null pointer dereferenced">>

\* what a call of Preconditioner_inverse did besides returning: whether the
\* conversion to a matrix was given the pointer 0, whether the inverse of
\* the instance was then entered, and how often the references taken by
\* PyArray_FROM_OTF for input and for output were released
Handled(v, nullArgument, invoked, released) ==
    [error |-> v.error, result |-> v.result, nullArgument |-> nullArgument,
     invoked |-> invoked, released |-> released]

\* Py_XDECREF(o) in the branch of the failed conversion: one release of
\* what did convert, nothing for the pointer 0
Py_XDECREF(o) == IF o = Null THEN 0 ELSE 1

\* The statements after a failed conversion.  No return follows
\* PyErr_SetString, so the try block is entered and PyArray_ToMatrixXd is
\* given the pointer 0, which is undefined: it faults there; or it throws,
\* and the handler releases with Py_DECREF again, up to the pointer 0; or it
\* yields some matrix, the inverse is entered, and either branch of the try
\* block releases with Py_DECREF again, up to the pointer 0.
AfterFailedConversion(pointers) ==
    LET once == [i \in 1..Len(pointers) |-> Py_XDECREF(pointers[i])]
        first == CHOOSE i \in 1..Len(pointers) :
                     /\ pointers[i] = Null
                     /\ \A j \in 1..(i - 1) : pointers[j] # Null
        again == [i \in 1..Len(pointers) |-> IF i < first THEN once[i] + 1 ELSE once[i]]
    IN  { Handled([error |-> Fault, result |-> NoResult], TRUE, FALSE, once),
          Handled([error |-> Fault, result |-> NoResult], TRUE, FALSE, again),
          Handled([error |-> Fault, result |-> NoResult], TRUE, TRUE, again) }

\* Preconditioner_inverse(self, args, kwds) with the arguments input and
\* output: the outcomes it can have
Preconditioner_inverse(input, output) ==
    IF input = Absent
    THEN { Handled(PyRaise("TypeError", MissingArgument), FALSE, FALSE, <<>>) }
    ELSE IF output # Absent /\ output # None
    THEN LET in == PyArray_FROM_OTF(input)
             out == PyArray_FROM_OTF(output)
         IN  IF in = Null \/ out = Null
             THEN AfterFailedConversion(<<in, out>>)
             ELSE LET data == Inverse(PyArray_ToMatrixXd(in), PyArray_ToMatrixXd(out))
                  IN  IF data.error # NoError
                      THEN { Handled(PyRaise("RuntimeError", data.error[1]),
                                     FALSE, TRUE, <<1, 1>>) }
                      ELSE { Handled(Value(PyTuple(PyArray_FromMatrixXd(data.result[1][1]),
                                                   PyArray_FromMatrixXd(data.result[1][2]))),
                                     FALSE, TRUE, <<1, 1>>) }
    ELSE LET in == PyArray_FROM_OTF(input)
         IN  IF in = Null
             THEN AfterFailedConversion(<<in>>)
             ELSE LET data == InverseInput(PyArray_ToMatrixXd(in))
                  IN  IF data.error # NoError
                      THEN { Handled(PyRaise("RuntimeError", data.error[1]),
                                     FALSE, TRUE, <<1>>) }
                      ELSE { Handled(Value(PyArray_FromMatrixXd(data.result[1])),
                                     FALSE, TRUE, <<1>>) }

(***************************************************************************)
(* Pickling.  __reduce__ returns (type, args, state) with the parameters    *)
(* as args and an empty state; unpickling calls the type with args, that    *)
(* is __init__ with the parameters, and __setstate__ does nothing.  A       *)
(* VectorXd becomes an array of one column, and back.                       *)
(***************************************************************************)
ColumnOf(v) == [rows |-> Len(v), cols |-> 1, a |-> [i \in 1..Len(v) |-> <<v[i]>>]]
VectorOf(m) == [i \in 1..m.rows |-> m.a[i][1]]

\* Py_BuildValue("(O...O)", ...)
PyTupleOf(items) == [py |-> "tuple", items |-> items]
PyType(name) == [py |-> "type", name |-> name]

\* whiteIn and whiteInInv change places in the tuple
WhiteningPreconditioner_reduce_Swapped ==
    PyTupleOf(<<PyType("WhiteningPreconditioner"),
                PyTupleOf(<<PyArray_FromMatrixXd(ColumnOf(mMeanIn)),
                            PyArray_FromMatrixXd(ColumnOf(mMeanOut)),
                            PyArray_FromMatrixXd(mPreInInv),
                            PyArray_FromMatrixXd(mPreIn),
                            PyArray_FromMatrixXd(mPreOut),
                            PyArray_FromMatrixXd(mPreOutInv),
                            PyArray_FromMatrixXd(mPredictor)>>),
                PyTupleOf(<<>>)>>)

WhiteningPreconditioner_reduce ==
    PyTupleOf(<<PyType("WhiteningPreconditioner"),
                PyTupleOf(<<PyArray_FromMatrixXd(ColumnOf(mMeanIn)),
                            PyArray_FromMatrixXd(ColumnOf(mMeanOut)),
                            PyArray_FromMatrixXd(mPreIn),
                            PyArray_FromMatrixXd(mPreInInv),
                            PyArray_FromMatrixXd(mPreOut),
                            PyArray_FromMatrixXd(mPreOutInv),
                            PyArray_FromMatrixXd(mPredictor)>>),
                PyTupleOf(<<>>)>>)

PCAPreconditioner_reduce ==
    PyTupleOf(<<PyType("PCAPreconditioner"),
                PyTupleOf(<<PyArray_FromMatrixXd(ColumnOf(mEigenvalues)),
                            PyArray_FromMatrixXd(ColumnOf(mMeanIn)),
                            PyArray_FromMatrixXd(ColumnOf(mMeanOut)),
                            PyArray_FromMatrixXd(mPreIn),
                            PyArray_FromMatrixXd(mPreInInv),
                            PyArray_FromMatrixXd(mPreOut),
                            PyArray_FromMatrixXd(mPreOutInv),
                            PyArray_FromMatrixXd(mPredictor)>>),
                PyTupleOf(<<>>)>>)

\* the parameters that __init__ hands to the constructor, in the order in
\* which it parses them from the n-th argument on
ParsedParameters(args, n) ==
    [meanIn |-> VectorOf(PyArray_ToMatrixXd(PyArray_FROM_OTF(args[n]))),
     meanOut |-> VectorOf(PyArray_ToMatrixXd(PyArray_FROM_OTF(args[n + 1]))),
     preIn |-> PyArray_ToMatrixXd(PyArray_FROM_OTF(args[n + 2])),
     preInInv |-> PyArray_ToMatrixXd(PyArray_FROM_OTF(args[n + 3])),
     preOut |-> PyArray_ToMatrixXd(PyArray_FROM_OTF(args[n + 4])),
     preOutInv |-> PyArray_ToMatrixXd(PyArray_FROM_OTF(args[n + 5])),
     predictor |-> PyArray_ToMatrixXd(PyArray_FROM_OTF(args[n + 6]))]

\* The constructors of the classes of the binding are not in the sources
\* given: WhiteningPreconditioner(meanIn, ..., predictor) is taken to hand its
\* seven parameters to the constructor of AffinePreconditioner, and
\* PCAPreconditioner(eigenvalues, meanIn, ..., predictor) to do the same and
\* to keep the eigenvalues.
WhiteningPreconditioner(p) ==
    /\ MemberInitializers(p)
    /\ mEigenvalues' = <<>>

PCAPreconditioner(eigenvalues, p) ==
    /\ MemberInitializers(p)
    /\ mEigenvalues' = eigenvalues

\* WhiteningPreconditioner_init with the seven arrays of a pickled instance
WhiteningPreconditioner_init(args) ==
    WhiteningPreconditioner(ParsedParameters(args, 1))

\* PCAPreconditioner_init with the eight arrays of a pickled instance
PCAPreconditioner_init(args) ==
    PCAPreconditioner(VectorOf(PyArray_ToMatrixXd(PyArray_FROM_OTF(args[1]))),
                      ParsedParameters(args, 2))

\* an instance exists and no call is under way
Ready == kind # "new" /\ call = Idle

\* The matrices of the input side, and of the output side, fit one another.
\* Eigen's sums and products are undefined on operands that do not fit, and no
\* operation tests its members: the operations that use a side are called on
\* instances on which that side fits.
FitsIn ==
    /\ mPreIn.cols = Len(mMeanIn)
    /\ mPreInInv.rows = Len(mMeanIn) /\ mPreInInv.cols = mPreIn.rows
FitsOut ==
    /\ mPreOut.rows = Len(mMeanOut) /\ mPreOut.cols = Len(mMeanOut)
    /\ mPreOutInv.rows = Len(mMeanOut) /\ mPreOutInv.cols = Len(mMeanOut)
    /\ mPredictor.rows = mPreOut.rows /\ mPredictor.cols = mPreIn.rows
    /\ mGradTransform.rows = mPreOut.rows /\ mGradTransform.cols = mPreIn.cols

CallTransform ==
    /\ Ready /\ FitsIn /\ FitsOut
    /\ \E input \in Arrays, output \in Arrays :
           call' = Outcome("transform", <<input, output>>, Transform(input, output))
    /\ UNCHANGED <<kind, fields, callers>>

CallInverse ==
    /\ Ready /\ FitsIn /\ FitsOut
    /\ \E input \in Arrays, output \in Arrays :
           call' = Outcome("inverse", <<input, output>>, Inverse(input, output))
    /\ UNCHANGED <<kind, fields, callers>>

CallTransformInput ==
    /\ Ready /\ FitsIn
    /\ \E input \in Arrays :
           call' = Outcome("transformInput", <<input>>, TransformInput(input))
    /\ UNCHANGED <<kind, fields, callers>>

CallInverseInput ==
    /\ Ready /\ FitsIn
    /\ \E input \in Arrays :
           call' = Outcome("inverseInput", <<input>>, InverseInput(input))
    /\ UNCHANGED <<kind, fields, callers>>

\* logJacobian checks nothing: it is called with arrays of any shape
CallLogJacobian ==
    /\ Ready
    /\ \E input \in Arrays, output \in Arrays :
           call' = Outcome("logJacobian", <<input, output>>, LogJacobian(input, output))
    /\ UNCHANGED <<kind, fields, callers>>

\* adjustGradient checks nothing either, and Eigen's products are undefined on
\* operands that do not fit: it is called with gradients of the shape of the
\* transformed data only
CallAdjustGradient ==
    /\ Ready /\ FitsIn /\ FitsOut
    /\ \E n \in 0..MaxCols :
         \E inputGradient \in Data(dimInPre, n), outputGradient \in Data(dimOutPre, n) :
           call' = Outcome("adjustGradient", <<inputGradient, outputGradient>>,
                           AdjustGradient(inputGradient, outputGradient))
    /\ UNCHANGED <<kind, fields, callers>>

\* the object is called from Python: pre(input), pre(input, output)
CallPreconditioner_call ==
    /\ Ready /\ FitsIn /\ FitsOut
    /\ \E input \in PyArrays \cup {Unconvertible, Absent},
          output \in PyArrays \cup {Unconvertible, None, Absent} :
           call' = Outcome("Preconditioner_call", <<input, output>>,
                           Preconditioner_call(input, output))
    /\ UNCHANGED <<kind, fields, callers>>

\* the method is called from Python: pre.inverse(input), pre.inverse(input, output)
CallPreconditioner_inverse ==
    /\ Ready /\ FitsIn /\ FitsOut
    /\ \E input \in PyArrays \cup {Unconvertible, Absent},
          output \in PyArrays \cup {Unconvertible, None, Absent} :
         \E v \in Preconditioner_inverse(input, output) :
           call' = [op |-> "Preconditioner_inverse", args |-> <<input, output>>,
                    error |-> v.error, result |-> v.result,
                    nullArgument |-> v.nullArgument, invoked |-> v.invoked,
                    released |-> v.released]
    /\ UNCHANGED <<kind, fields, callers>>

\* pickle.dumps(pre) calls __reduce__
CallReduce ==
    /\ Ready
    /\ call' = Outcome("reduce", <<>>,
                       Value(IF kind = "pca" THEN PCAPreconditioner_reduce
                                             ELSE WhiteningPreconditioner_reduce))
    /\ UNCHANGED <<kind, fields, callers>>

\* pickle.loads builds the instance anew from what __reduce__ returned; the
\* model goes on with the rebuilt instance in the place of the original
Unpickle ==
    /\ kind # "new" /\ call.op = "reduce"
    /\ LET cls == call.result[1].items[1]
           args == call.result[1].items[2].items
       IN  /\ IF cls = PyType("PCAPreconditioner")
              THEN PCAPreconditioner_init(args)
              ELSE WhiteningPreconditioner_init(args)
           /\ call' = [op |-> "init", args |-> <<cls, args>>,
                       error |-> NoError, result |-> NoResult]
    /\ UNCHANGED <<kind, callers>>

\* an instance is constructed from a parameter tuple
ConstructAffinePreconditioner ==
    /\ kind = "new"
    /\ \E p \in AffineParams \cup InconsistentParams : AffinePreconditioner(p)

\* an instance is constructed from data; the solver's answer has the size of
\* the covariance of the input
ConstructPCATransform ==
    /\ kind = "new"
    /\ \E q \in PCAArguments : PCATransform(q)

ConstructPCAExample ==
    /\ kind = "new"
    /\ \E q \in PCAExamples : PCATransform(q)

\* the caller takes the result of the call
Collect ==
    /\ call # Idle
    /\ call' = Idle
    /\ UNCHANGED <<kind, fields, callers>>

Next ==
    \/ ConstructAffinePreconditioner
    \/ ConstructPCAExample
    \/ CallTransform
    \/ CallInverse
    \/ CallTransformInput
    \/ CallInverseInput
    \/ CallLogJacobian
    \/ CallAdjustGradient
    \/ CallPreconditioner_call
    \/ CallPreconditioner_inverse
    \/ CallReduce
    \/ Unpickle
    \/ Collect

Spec == Init /\ [][Next]_vars

\* The construction from data with every argument, and the operations of the
\* input side and the Jacobian on what it builds.
NextPCA ==
    \/ ConstructPCATransform
    \/ CallTransformInput
    \/ CallInverseInput
    \/ CallLogJacobian
    \/ Collect

SpecPCA == Init /\ [][NextPCA]_vars

(***************************************************************************)
(* The operations called from several threads at once.  Each is a const    *)
(* member function: a thread runs it one statement at a time, reading the  *)
(* members and writing its own locals, while the other threads run theirs. *)
(***************************************************************************)
\* the instances the threads share
ThreadParams ==
    { p \in AffineParams :
        /\ p.preIn.rows = 1
        /\ p.preOut \in {IntMat(<< <<-2>> >>), IntMat(<< <<0, 2>>, <<1, 1>> >>)} }

\* the arrays the threads pass: one sample
ThreadArrays == UNION { Data(d, 1) : d \in Dims }

\* the tests of lines 85-90 and 102-107, for the dimensions expected
ShapeError(input, output, rowsIn, rowsOut) ==
    IF input.cols # output.cols THEN <<DimensionMismatch>>
    ELSE IF input.rows # rowsIn THEN <<InputDimensionError>>
    ELSE IF output.rows # rowsOut THEN <<OutputDimensionError>>
    ELSE NoError

\* thread t at statement pc, with what it has assigned or returned
At(t, pc, local, error, result) ==
    callers' = [callers EXCEPT ![t] =
                   [@ EXCEPT !.pc = pc, !.local = local,
                             !.error = error, !.result = result]]

Inside(t, op, pc) == callers[t].op = op /\ callers[t].pc = pc

\* a thread calls an operation of the instance
Enter(t) ==
    /\ kind # "new" /\ FitsIn /\ FitsOut
    /\ callers[t] = Outside
    /\ \/ \E op \in {"transform", "inverse", "logJacobian"} :
            \E input \in ThreadArrays, output \in ThreadArrays :
               callers' = [callers EXCEPT ![t] =
                   [Outside EXCEPT !.pc = "entered", !.op = op,
                                   !.args = <<input, output>>]]
       \/ \E inputGradient \in Data(dimInPre, 1), outputGradient \in Data(dimOutPre, 1) :
               callers' = [callers EXCEPT ![t] =
                   [Outside EXCEPT !.pc = "entered", !.op = "adjustGradient",
                                   !.args = <<inputGradient, outputGradient>>]]
    /\ UNCHANGED <<kind, fields, call>>

\* operator()(input, output), lines 85-90
TransformChecks(t) ==
    /\ Inside(t, "transform", "entered")
    /\ LET e == ShapeError(callers[t].args[1], callers[t].args[2], dimIn, dimOut)
       IN  IF e # NoError THEN At(t, "returned", <<>>, e, NoResult)
           ELSE At(t, "line91", <<>>, NoError, NoResult)
    /\ UNCHANGED <<kind, fields, call>>

\* a scratch member shared by the threads holds inputTr
TransformInputTrShared(t) ==
    /\ Inside(t, "transform", "line91")
    /\ LET inputTr == MatMul(mPreIn, ColwiseSub(callers[t].args[1], mMeanIn))
       IN  callers' = [u \in Callers |->
               IF u = t THEN [callers[u] EXCEPT !.pc = "line92", !.local = <<inputTr>>]
               ELSE IF callers[u].local # <<>>
                    THEN [callers[u] EXCEPT !.local = <<inputTr>>]
                    ELSE callers[u]]
    /\ UNCHANGED <<kind, fields, call>>

\* line 91: ArrayXXd inputTr = mPreIn * (input - mMeanIn)
TransformInputTr(t) ==
    /\ Inside(t, "transform", "line91")
    /\ At(t, "line92",
          <<MatMul(mPreIn, ColwiseSub(callers[t].args[1], mMeanIn))>>,
          NoError, NoResult)
    /\ UNCHANGED <<kind, fields, call>>

\* lines 92-93: outputTr from the local inputTr, and the pair returned
TransformOutputTr(t) ==
    /\ Inside(t, "transform", "line92")
    /\ LET inputTr == callers[t].local[1]
           outputTr == MatMul(mPreOut,
                          MatSub(ColwiseSub(callers[t].args[2], mMeanOut),
                                 MatMul(mPredictor, inputTr)))
       IN  At(t, "returned", <<>>, NoError, <<(<<inputTr, outputTr>>)>>)
    /\ UNCHANGED <<kind, fields, call>>

\* inverse(input, output), lines 102-107
InverseChecks(t) ==
    /\ Inside(t, "inverse", "entered")
    /\ LET e == ShapeError(callers[t].args[1], callers[t].args[2], dimInPre, dimOutPre)
       IN  IF e # NoError THEN At(t, "returned", <<>>, e, NoResult)
           ELSE At(t, "line108", <<>>, NoError, NoResult)
    /\ UNCHANGED <<kind, fields, call>>

\* line 108: ArrayXXd outputTr = mPreOutInv * output + mPredictor * input + mMeanOut
InverseOutputTr(t) ==
    /\ Inside(t, "inverse", "line108")
    /\ At(t, "line109",
          <<ColwiseAdd(MatAdd(MatMul(mPreOutInv, callers[t].args[2]),
                              MatMul(mPredictor, callers[t].args[1])), mMeanOut)>>,
          NoError, NoResult)
    /\ UNCHANGED <<kind, fields, call>>

\* lines 109-110: inputTr, and the pair returned
InverseInputTr(t) ==
    /\ Inside(t, "inverse", "line109")
    /\ LET outputTr == callers[t].local[1]
           inputTr == ColwiseAdd(MatMul(mPreInInv, callers[t].args[1]), mMeanIn)
       IN  At(t, "returned", <<>>, NoError, <<(<<inputTr, outputTr>>)>>)
    /\ UNCHANGED <<kind, fields, call>>

\* logJacobian(input, output), line 132
LogJacobianReturn(t) ==
    /\ Inside(t, "logJacobian", "entered")
    /\ LET v == LogJacobian(callers[t].args[1], callers[t].args[2])
       IN  At(t, "returned", <<>>, v.error, v.result)
    /\ UNCHANGED <<kind, fields, call>>

\* adjustGradient(inputGradient, outputGradient), lines 141-143
AdjustGradientReturn(t) ==
    /\ Inside(t, "adjustGradient", "entered")
    /\ LET v == AdjustGradient(callers[t].args[1], callers[t].args[2])
       IN  At(t, "returned", <<>>, v.error, v.result)
    /\ UNCHANGED <<kind, fields, call>>

\* the thread has its result and is outside again
Leave(t) ==
    /\ callers[t].pc = "returned"
    /\ callers' = [callers EXCEPT ![t] = Outside]
    /\ UNCHANGED <<kind, fields, call>>

ConstructShared ==
    /\ kind = "new"
    /\ \E p \in ThreadParams : AffinePreconditioner(p)

NextThreads ==
    \/ ConstructShared
    \/ \E t \in Callers :
          \/ Enter(t)
          \/ TransformChecks(t)
          \/ TransformInputTr(t)
          \/ TransformOutputTr(t)
          \/ InverseChecks(t)
          \/ InverseOutputTr(t)
          \/ InverseInputTr(t)
          \/ LogJacobianReturn(t)
          \/ AdjustGradientReturn(t)
          \/ Leave(t)

SpecThreads == Init /\ [][NextThreads]_vars

(***************************************************************************)
(* Properties.                                                             *)
(***************************************************************************)
\* what the last call was given and what it returned
Arg1 == call.args[1]
Arg2 == call.args[2]
Succeeded == call.error = NoError
Result == call.result[1]

\* the sum over k = 1..n of t(k)
SumOver(n, t(_)) == RSumTo([k \in 1..n |-> t(k)], n)

\* C1: operator()(input, output) on arrays of valid shape returns
\* transformedInput = preIn * (input - meanIn) and transformedOutput =
\* preOut * (output - meanOut - predictor * transformedInput), coefficient by
\* coefficient and in every column; the predictor multiplies the transformed
\* input.
C1_TransformFormula ==
    (call.op = "transform" /\ Arg1.cols = Arg2.cols
        /\ Arg1.rows = Len(mMeanIn) /\ Arg2.rows = Len(mMeanOut)) =>
    /\ Succeeded
    /\ LET tIn == Result[1]
           tOut == Result[2]
       IN  /\ tIn.rows = mPreIn.rows /\ tIn.cols = Arg1.cols
           /\ tOut.rows = mPreOut.rows /\ tOut.cols = Arg2.cols
           /\ \A i \in 1..mPreIn.rows, n \in 1..Arg1.cols :
                tIn.a[i][n] = SumOver(mPreIn.cols, LAMBDA j :
                                 RMul(mPreIn.a[i][j], RSub(Arg1.a[j][n], mMeanIn[j])))
           /\ \A i \in 1..mPreOut.rows, n \in 1..Arg2.cols :
                tOut.a[i][n] = SumOver(mPreOut.cols, LAMBDA j :
                    RMul(mPreOut.a[i][j],
                         RSub(RSub(Arg2.a[j][n], mMeanOut[j]),
                              SumOver(mPredictor.cols, LAMBDA k :
                                  RMul(mPredictor.a[j][k], tIn.a[k][n])))))

\* a transform of two columns has returned on an instance with a predictor,
\* means and a projection that are not trivial
C1_Witness ==
    /\ call.op = "transform" /\ Succeeded
    /\ Arg1.cols = 2 /\ Arg1.a[1][1] # Arg1.a[1][2]
    /\ mPreIn.rows = 1 /\ mPreIn.cols = 2 /\ mPreOut.rows = 2
    /\ mPredictor.a[1][1] # R0 /\ mMeanIn[1] # R0 /\ mMeanOut[1] # R0

\* C2: inverse(transformedInput, transformedOutput) on arrays of valid shape
\* returns the pair (input, output) with input = preInInv * transformedInput +
\* meanIn and output = preOutInv * transformedOutput + predictor *
\* transformedInput + meanOut, in every column.
C2_InverseFormula ==
    (call.op = "inverse" /\ Arg1.cols = Arg2.cols
        /\ Arg1.rows = mPreIn.rows /\ Arg2.rows = mPreOut.rows) =>
    /\ Succeeded
    /\ LET in == Result[1]
           out == Result[2]
       IN  /\ in.rows = mPreInInv.rows /\ in.cols = Arg1.cols
           /\ out.rows = mPreOutInv.rows /\ out.cols = Arg2.cols
           /\ \A i \in 1..mPreInInv.rows, n \in 1..Arg1.cols :
                in.a[i][n] = RAdd(SumOver(mPreInInv.cols, LAMBDA j :
                                     RMul(mPreInInv.a[i][j], Arg1.a[j][n])),
                                  mMeanIn[i])
           /\ \A i \in 1..mPreOutInv.rows, n \in 1..Arg2.cols :
                out.a[i][n] =
                    RAdd(RAdd(SumOver(mPreOutInv.cols, LAMBDA j :
                                  RMul(mPreOutInv.a[i][j], Arg2.a[j][n])),
                              SumOver(mPredictor.cols, LAMBDA k :
                                  RMul(mPredictor.a[i][k], Arg1.a[k][n]))),
                         mMeanOut[i])

\* an inverse of two columns has returned where input and output differ in
\* shape (a 2 x 1 projection inverse and a 2 x 2 output side)
C2_Witness ==
    /\ call.op = "inverse" /\ Succeeded
    /\ Arg1.cols = 2 /\ Arg1.rows = 1 /\ Arg2.rows = 2
    /\ mPreInInv.rows = 2 /\ mPredictor.a[1][1] # R0
    /\ Result[1] # Result[2]

\* the instance is of the whitening kind: preIn and preOut are square and
\* preInInv, preOutInv are their inverses
IsWhitening ==
    /\ mPreIn.rows = mPreIn.cols /\ mPreOut.rows = mPreOut.cols
    /\ mPreInInv.rows = mPreIn.cols /\ mPreInInv.cols = mPreIn.rows
    /\ mPreOutInv.rows = mPreOut.cols /\ mPreOutInv.cols = mPreOut.rows
    /\ MatMul(mPreInInv, mPreIn) = Identity(mPreIn.cols, mPreIn.cols)
    /\ MatMul(mPreOutInv, mPreOut) = Identity(mPreOut.cols, mPreOut.cols)

\* C3: on an instance of the whitening kind, inverse applied to what
\* operator()(x, y) returned gives (x, y) back.
C3_RoundTrip ==
    (call.op = "transform" /\ Succeeded /\ IsWhitening) =>
        Inverse(Result[1], Result[2]) = Value(<<Arg1, Arg2>>)

C3_Witness ==
    /\ call.op = "transform" /\ Succeeded /\ IsWhitening
    /\ Arg1.cols = 2 /\ Arg1.rows = 2 /\ Arg2.rows = 2
    /\ Arg1.a[1][1] # Arg1.a[1][2]
    /\ mPredictor.a[1][1] # R0 /\ mMeanIn[1] # R0 /\ mMeanOut[1] # R0
    /\ Result # <<Arg1, Arg2>>

\* C4: operator()(input, output) and inverse(input, output) fail with the
\* dimension-mismatch error when the column counts differ, otherwise with the
\* input-dimension error when the first argument has the wrong number of
\* rows, otherwise with the output-dimension error when the second has; a
\* failed call returns nothing, and a call succeeds exactly if all three fit.
C4_ShapeChecks ==
    call.op \in {"transform", "inverse"} =>
        LET wantIn == IF call.op = "transform" THEN Len(mMeanIn) ELSE mPreIn.rows
            wantOut == IF call.op = "transform" THEN Len(mMeanOut) ELSE mPreOut.rows
            colsFit == Arg1.cols = Arg2.cols
            inFits == Arg1.rows = wantIn
            outFits == Arg2.rows = wantOut
        IN  /\ ~colsFit => call.error = <<DimensionMismatch>>
            /\ (colsFit /\ ~inFits) => call.error = <<InputDimensionError>>
            /\ (colsFit /\ inFits /\ ~outFits) => call.error = <<OutputDimensionError>>
            /\ Succeeded <=> (colsFit /\ inFits /\ outFits)
            /\ ~Succeeded => call.result = NoResult
            /\ Succeeded => Len(call.result) = 1

\* a call has failed on arguments that break all three conditions at once
C4_Witness ==
    /\ call.op = "inverse"
    /\ Arg1.cols # Arg2.cols /\ Arg1.rows # mPreIn.rows /\ Arg2.rows # mPreOut.rows
    /\ call.error = <<DimensionMismatch>>

\* the determinant, by expansion along the first row
RECURSIVE Det(_)
Det(A) ==
    IF A.rows = 0 THEN R1
    ELSE LET Minor(c) ==
                 [rows |-> A.rows - 1, cols |-> A.cols - 1,
                  a |-> [i \in 1..(A.rows - 1) |-> [j \in 1..(A.cols - 1) |->
                           A.a[i + 1][IF j < c THEN j ELSE j + 1]]]]
         IN  SumOver(A.cols, LAMBDA c :
                 RMul(IF c % 2 = 1 THEN A.a[1][c] ELSE RNeg(A.a[1][c]), Det(Minor(c))))

\* C5: logJacobian(input, output) returns one entry for each column of output,
\* each the sum of the logarithms of the absolute values of the diagonal of
\* the LU decomposition of preOut, which is the logarithm of |det(preOut)|,
\* whatever the data and however the instance was constructed.
C5_ConstantJacobian ==
    call.op = "logJacobian" =>
        /\ Succeeded
        /\ Len(Result) = Arg2.cols
        /\ \A j \in 1..Arg2.cols : Result[j] = [ln |-> RAbs(Det(mPreOut))]

\* the Jacobian of two samples has been returned on an instance built from data
C5_Witness ==
    /\ call.op = "logJacobian" /\ Succeeded
    /\ kind = "pca" /\ mPreOut.rows = 2
    /\ Arg2.cols = 2 /\ Arg1.cols # 2 /\ Len(Result) = 2

\* the inner product of two arrays of one shape
Dot(A, B) ==
    SumOver(A.rows, LAMBDA i : SumOver(A.cols, LAMBDA n : RMul(A.a[i][n], B.a[i][n])))

\* C6: adjustGradient(gIn, gOut) returns rawIn = preIn^T gIn -
\* (preOut predictor preIn)^T gOut and rawOut = preOut^T gOut, and this is the
\* gradient of operator(): <gIn, Tin(x + dx) - Tin(x)> + <gOut, Tout(x + dx,
\* y + dy) - Tout(x, y)> = <rawIn, dx> + <rawOut, dy> for x, y, dx, dy of the
\* shape of the raw data.
C6_GradientChainRule ==
    call.op = "adjustGradient" =>
        /\ Succeeded
        /\ Result[1] = MatSub(MatMul(Transpose(mPreIn), Arg1),
                              MatMul(Transpose(MatMul(MatMul(mPreOut, mPredictor),
                                                      mPreIn)), Arg2))
        /\ Result[2] = MatMul(Transpose(mPreOut), Arg2)
        /\ \A x \in Probes(dimIn, Arg1.cols), dx \in Probes(dimIn, Arg1.cols),
              y \in Probes(dimOut, Arg1.cols), dy \in Probes(dimOut, Arg1.cols) :
             LET at == Transform(x, y).result[1]
                 moved == Transform(MatAdd(x, dx), MatAdd(y, dy)).result[1]
             IN  RAdd(Dot(Arg1, MatSub(moved[1], at[1])),
                      Dot(Arg2, MatSub(moved[2], at[2])))
                   = RAdd(Dot(Result[1], dx), Dot(Result[2], dy))

\* a gradient of two samples has been adjusted on an instance that projects
\* two inputs to one and whose predictor is not zero
C6_Witness ==
    /\ call.op = "adjustGradient" /\ Succeeded
    /\ Arg1.cols = 2 /\ mPreIn.rows = 1 /\ mPreIn.cols = 2 /\ mPreOut.rows = 2
    /\ mGradTransform # Zero(2, 2)
    /\ Result[1] # MatMul(Transpose(mPreIn), Arg1)

\* C7: operator()(input) returns, for an input of dimIn() rows, the
\* transformed input that operator()(input, output) returns with any output
\* that fits, and fails with the input-dimension error otherwise; the object
\* called from Python without output, or with None, returns that one array,
\* and called with an output array returns the pair.  (The two-argument
\* transform is defined where the output side of the instance fits.)
C7_SingleArgument ==
    /\ call.op = "transformInput" =>
         IF Arg1.rows = Len(mMeanIn)
         THEN /\ Succeeded
              /\ FitsOut =>
                   \A output \in Data(dimOut, Arg1.cols) :
                       /\ Transform(Arg1, output).error = NoError
                       /\ Transform(Arg1, output).result[1][1] = Result
         ELSE call.error = <<InputDimensionError>> /\ call.result = NoResult
    /\ (call.op = "Preconditioner_call" /\ Arg1.py = "ndarray") =>
         /\ Arg2 \in {Absent, None} =>
              IF Arg1.m.rows = Len(mMeanIn)
              THEN /\ Succeeded
                   /\ Result.py = "ndarray"
                   /\ \A output \in Data(dimOut, Arg1.m.cols) :
                        Result.m = Transform(Arg1.m, output).result[1][1]
              ELSE call.error = <<"RuntimeError", InputDimensionError>>
                   /\ call.result = NoResult
         /\ (Arg2.py = "ndarray" /\ Transform(Arg1.m, Arg2.m).error = NoError) =>
              /\ Succeeded
              /\ Result.py = "tuple"
              /\ Result.items =
                    <<PyArray_FromMatrixXd(Transform(Arg1.m, Arg2.m).result[1][1]),
                      PyArray_FromMatrixXd(Transform(Arg1.m, Arg2.m).result[1][2])>>

\* an input of two samples has been transformed alone on an instance whose
\* mean is not zero and that has outputs to go with the input
C7_Witness ==
    /\ call.op = "transformInput" /\ Succeeded /\ FitsOut
    /\ Arg1.cols = 2 /\ Arg1.rows = 2 /\ mMeanIn[1] # R0
    /\ Data(dimOut, 2) # {}
    /\ Result # MatMul(mPreIn, Arg1)

(***************************************************************************)
(* Properties of the construction from data.                               *)
(***************************************************************************)
\* the arguments of the construction that has just returned
Built == call.op = "PCATransform" /\ Arg1.input.rows >= 1
Kept == mPreIn.rows
Min(a, b) == IF a < b THEN a ELSE b

\* C8: an explicit count numPCs >= 0 decides the number of components kept,
\* whatever varExplained: it is min(numPCs, number of eigenvalues).
C8_ExplicitCount ==
    (Built /\ Arg1.numPCs >= 0) =>
        /\ Kept = Min(Arg1.numPCs, Len(mEigenvalues))
        /\ mPreInInv.cols = Kept
        /\ mPredictor.cols = Kept

\* a count above the number of eigenvalues was given with a threshold that
\* alone would keep fewer components
C8_Witness ==
    /\ Built /\ Arg1.numPCs = 4 /\ Len(mEigenvalues) = 3 /\ Kept = 3
    /\ Arg1.varExplained = RI(50)
    /\ SelectNumPCs(mEigenvalues, Arg1.varExplained, -1) = 1

\* C9: without an explicit count, a higher threshold never keeps fewer
\* components of the same eigenvalues.
C9_Monotone ==
    (Built /\ Arg1.numPCs < 0) =>
        \A t \in Thresholds :
            /\ ~RLt(t, Arg1.varExplained) =>
                  Kept <= SelectNumPCs(mEigenvalues, t, -1)
            /\ ~RLt(Arg1.varExplained, t) =>
                  SelectNumPCs(mEigenvalues, t, -1) <= Kept

\* a construction kept two of three components where a lower threshold keeps
\* one and a higher one keeps three
C9_Witness ==
    /\ Built /\ Arg1.numPCs < 0 /\ Len(mEigenvalues) = 3 /\ Kept = 2
    /\ \E t \in Thresholds : RLt(t, Arg1.varExplained)
                              /\ SelectNumPCs(mEigenvalues, t, -1) = 1
    /\ \E t \in Thresholds : RLt(Arg1.varExplained, t)
                              /\ SelectNumPCs(mEigenvalues, t, -1) = 3

\* C10: without an explicit count and with a threshold of 100, every
\* eigenvalue that is not below the floor of 1e-8 has its direction among the
\* components kept: its eigenvector, scaled, is a row of preIn.
C10_FullVariance ==
    (Built /\ Arg1.numPCs < 0 /\ Arg1.varExplained = RI(100)) =>
        \A i \in 1..Len(mEigenvalues) :
            ~RLt(mEigenvalues[i], EigFloor) =>
                /\ i > Len(mEigenvalues) - Kept
                /\ \A j \in 1..mPreIn.cols :
                     mPreIn.a[i - (Len(mEigenvalues) - Kept)][j] =
                        RDiv(Arg1.solver.eigenvectors.a[j][i], RSqrt(mEigenvalues[i]))

\* a construction at 100 per cent with eigenvalues on both sides of the floor
C10_Witness ==
    /\ Built /\ Arg1.numPCs < 0 /\ Arg1.varExplained = RI(100)
    /\ Len(mEigenvalues) = 3
    /\ RLt(mEigenvalues[1], EigFloor) /\ mEigenvalues[2] = EigFloor
    /\ RLt(EigFloor, mEigenvalues[3])
    /\ Arg1.solver.eigenvectors # Identity(3, 3)

(***************************************************************************)
(* Properties of the construction from a parameter tuple.                  *)
(***************************************************************************)
\* the kinds of dimension error
DimensionErrors ==
    {<<DimensionMismatch>>, <<InputDimensionError>>, <<OutputDimensionError>>}

\* C11: the construction from a parameter tuple whose dimensions do not
\* agree fails with one of the dimension errors and leaves no instance.
C11_InconsistentTupleFails ==
    (call.op = "AffinePreconditioner" /\ ~ConsistentTuple(Arg1)) =>
        /\ kind = "new"
        /\ call.error \in DimensionErrors

(***************************************************************************)
(* Properties of the instance under concurrent calls.                      *)
(***************************************************************************)
\* what the operation a thread is in returns for its arguments when it is
\* called alone
Alone(c) ==
    CASE c.op = "transform" -> Transform(c.args[1], c.args[2])
      [] c.op = "inverse" -> Inverse(c.args[1], c.args[2])
      [] c.op = "logJacobian" -> LogJacobian(c.args[1], c.args[2])
      [] c.op = "adjustGradient" -> AdjustGradient(c.args[1], c.args[2])

\* C12: once constructed, the members keep the values the constructor gave
\* them through every step of every thread, whatever the operation and whether
\* it returns or throws; and what an operation returns to a thread is what it
\* returns for the same arguments when called alone, whatever the other
\* threads do meanwhile.
C12_Immutable ==
    /\ [](kind # "new" =>
            LET p == call.args[1]
            IN  /\ mMeanIn = p.meanIn /\ mMeanOut = p.meanOut
                /\ mPreIn = p.preIn /\ mPreInInv = p.preInInv
                /\ mPreOut = p.preOut /\ mPreOutInv = p.preOutInv
                /\ mPredictor = p.predictor
                /\ mLogJacobian = LogAbsSum(Diagonal(MatrixLU(p.preOut)))
                /\ mGradTransform = MatMul(MatMul(p.preOut, p.predictor), p.preIn))
    /\ [](\A t \in Callers :
            callers[t].pc = "returned" =>
                /\ callers[t].error = Alone(callers[t]).error
                /\ callers[t].result = Alone(callers[t]).result)
    /\ [][kind # "new" => UNCHANGED <<kind, fields>>]_vars

\* one thread has its transformed pair while the other is between the two
\* statements of an inverse of other arguments
C12_Witness ==
    /\ callers[1].pc = "returned" /\ callers[1].op = "transform"
    /\ callers[1].error = NoError
    /\ callers[2].op = "inverse" /\ callers[2].pc = "line109"
    /\ callers[1].args # callers[2].args

(***************************************************************************)
(* Properties of pickling.                                                 *)
(***************************************************************************)
\* the arrays of the seven parameters of the instance, in the order of the
\* parameter tuple
SevenParameters ==
    <<PyArray_FromMatrixXd(ColumnOf(mMeanIn)), PyArray_FromMatrixXd(ColumnOf(mMeanOut)),
      PyArray_FromMatrixXd(mPreIn), PyArray_FromMatrixXd(mPreInInv),
      PyArray_FromMatrixXd(mPreOut), PyArray_FromMatrixXd(mPreOutInv),
      PyArray_FromMatrixXd(mPredictor)>>

\* C13: __reduce__ gives the parameters in the order (eigenvalues for PCA,)
\* meanIn, meanOut, preIn, preInInv, preOut, preOutInv, predictor; and the
\* instance rebuilt from them has the members of the original, logJacobian and
\* gradTransform, which are computed anew, included: every operation, a
\* function of its arguments and the members, returns what it returned before.
C13_PersistenceRoundTrip ==
    [][/\ call'.op = "reduce" =>
            call'.result[1].items[2].items =
                (IF kind = "pca" THEN <<PyArray_FromMatrixXd(ColumnOf(mEigenvalues))>>
                                 ELSE <<>>) \o SevenParameters
       /\ call'.op = "init" =>
            /\ fields' = fields
            /\ kind' = kind
            /\ mLogJacobian' = LogAbsSum(Diagonal(MatrixLU(mPreOut)))
            /\ mGradTransform' = MatMul(MatMul(mPreOut, mPredictor), mPreIn)
      ]_vars

\* an instance with a projection, with an inverse that is not the transpose
\* and with a predictor has been rebuilt from its pickle
C13_Witness ==
    /\ call.op = "init" /\ kind = "affine"
    /\ mPreIn.rows = 1 /\ mPreIn.cols = 2 /\ mPreInInv # Transpose(mPreIn)
    /\ mPreOut.rows = 2 /\ mPreOutInv # mPreOut
    /\ mGradTransform # Zero(2, 2)

(***************************************************************************)
(* Further properties of the construction from data.                       *)
(***************************************************************************)
\* the dimensions of the members agree with one another
DimensionsAgree ==
    /\ dimIn = Len(mMeanIn) /\ dimOut = Len(mMeanOut)
    /\ mPreIn.rows = mPreInInv.cols
    /\ mPreOut.rows = mPreOut.cols
    /\ mPreOut.cols = mPreOutInv.rows /\ mPreOutInv.rows = mPreOutInv.cols
    /\ mPredictor.rows = mPreOut.rows /\ mPredictor.cols = mPreIn.rows

\* C14: the dimensions agree in every instance constructed from data,
\* whatever the shape of the input (zero rows included), dimOut, varExplained
\* and numPCs.
C14_DimensionInvariants ==
    call.op = "PCATransform" => DimensionsAgree

\* every coefficient of a matrix is zero
AllZero(m) == \A i \in 1..m.rows : \A j \in 1..m.cols : m.a[i][j] = R0

\* C16: for an input of zero rows or of zero columns no eigen-decomposition
\* is attempted (no eigenvalues are stored), meanOut is the zero vector of
\* length dimOut, preOut and preOutInv are the identity of dimOut, predictor
\* and gradTransform are zero and logJacobian is 0.
C16_DegenerateInput ==
    (call.op = "PCATransform" /\ (Arg1.input.rows = 0 \/ Arg1.input.cols = 0)) =>
        /\ mEigenvalues = <<>>
        /\ mMeanOut = ZeroVec(Arg1.dimOut)
        /\ mPreOut = Identity(Arg1.dimOut, Arg1.dimOut)
        /\ mPreOutInv = Identity(Arg1.dimOut, Arg1.dimOut)
        /\ AllZero(mPredictor) /\ AllZero(mGradTransform)
        /\ mLogJacobian = LnZero

\* the percentage of the total variance that the k largest of the
\* eigenvalues e make up (not a number when the total is 0 or is none)
CumulativePercent(e, k) ==
    RSumTo([i \in 1..k |-> FMul(FDiv(e[Len(e) - i + 1], VecSum(e)), RI(100))], k)

\* the counts at which that percentage exceeds the threshold t
Exceeding(e, t) == { k \in 1..Len(e) : FGt(CumulativePercent(e, k), t) }

\* C15: without an explicit count the number of components kept is the
\* least k >= 1 for which the percentage of the k largest eigenvalues is
\* strictly above varExplained, and the number of eigenvalues where there is
\* no such k; a percentage equal to the threshold does not count, and at
\* least one component is kept.
C15_WalkSemantics ==
    (Built /\ Arg1.numPCs < 0) =>
        /\ Kept >= 1
        /\ IF Exceeding(mEigenvalues, Arg1.varExplained) = {}
           THEN Kept = Len(mEigenvalues)
           ELSE /\ Kept \in Exceeding(mEigenvalues, Arg1.varExplained)
                /\ \A k \in Exceeding(mEigenvalues, Arg1.varExplained) : Kept <= k

\* the largest of two eigenvalues makes up exactly the threshold, and the
\* walk has gone on to keep both
C15_Witness ==
    /\ Built /\ Arg1.numPCs < 0 /\ Len(mEigenvalues) = 2
    /\ Arg1.varExplained = RI(80)
    /\ CumulativePercent(mEigenvalues, 1) = Arg1.varExplained
    /\ Kept = 2

\* the construction has just returned for data of at least one row and one
\* sample
BuiltFromData == Built /\ Arg1.input.cols >= 1

\* the eigenvalue and the eigenvector of the i-th component kept, counted from
\* the smallest kept; the eigenvalue as the scales use it
KeptIndex(i) == Len(mEigenvalues) - Kept + i
KeptValue(i) ==
    IF RLt(mEigenvalues[KeptIndex(i)], EigFloor) THEN R1
    ELSE mEigenvalues[KeptIndex(i)]
KeptVector(i) ==
    [j \in 1..Arg1.solver.eigenvectors.rows |->
        Arg1.solver.eigenvectors.a[j][KeptIndex(i)]]

ExpectedCount(e, t, numPCs) ==
    IF numPCs >= 0 THEN Min(numPCs, Len(e))
    ELSE IF Exceeding(e, t) = {} THEN Len(e)
    ELSE CHOOSE k \in Exceeding(e, t) : \A m \in Exceeding(e, t) : k <= m

\* C18: an eigenvalue strictly below 1e-8 counts as 1 in the scales of preIn
\* and preInInv, so that its direction, if kept, is passed through unscaled;
\* an eigenvalue of 1e-8 or more is used as it is; and neither the number of
\* components kept nor the eigenvalues stored are touched by the floor.
C18_NumericalFloor ==
    Built =>
        /\ mEigenvalues = Arg1.solver.eigenvalues
        /\ Kept = ExpectedCount(Arg1.solver.eigenvalues, Arg1.varExplained, Arg1.numPCs)
        /\ \A i \in 1..Kept : \A j \in 1..dimIn :
              LET e == mEigenvalues[KeptIndex(i)]
                  v == KeptVector(i)[j]
              IN  /\ RLt(e, EigFloor) =>
                        mPreIn.a[i][j] = v /\ mPreInInv.a[j][i] = v
                  /\ (e # NaN /\ ~RLt(e, EigFloor)) =>
                        /\ mPreIn.a[i][j] = RDiv(v, RSqrt(e))
                        /\ mPreInInv.a[j][i] = RMul(v, RSqrt(e))

\* two of three components are kept at 80 per cent, one of an eigenvalue
\* below the floor and one of the eigenvalue 1e-8 (of the eigenvalues 2.5e-9,
\* 2.5e-9 and 1e-8 taken for 1, 1 and 1e-8, the walk would keep all three)
C18_Witness ==
    /\ Built /\ Arg1.numPCs < 0 /\ Arg1.varExplained = RI(80)
    /\ Len(mEigenvalues) = 3 /\ Kept = 2
    /\ RLt(R0, mEigenvalues[2]) /\ RLt(mEigenvalues[2], EigFloor)
    /\ mEigenvalues[3] = EigFloor
    /\ mEigenvalues[1] = mEigenvalues[2]
    /\ Arg1.solver.eigenvectors = Rotation(3)

(***************************************************************************)
(* C19.  In Preconditioner_inverse, an argument that does not convert to   *)
(* an array of doubles ends the call with the TypeError of its path and    *)
(* the result 0: PyArray_ToMatrixXd is not given the pointer 0, the        *)
(* inverse of the instance is not entered, and no reference is released    *)
(* more than once; with one argument and with two.                         *)
(***************************************************************************)
FailedConversion ==
    /\ call.op = "Preconditioner_inverse"
    /\ call.args[1] # Absent
    /\ \/ PyArray_FROM_OTF(call.args[1]) = Null
       \/ /\ call.args[2] \notin {Absent, None}
          /\ PyArray_FROM_OTF(call.args[2]) = Null

C19_FailedConversionReturns ==
    FailedConversion =>
        /\ call.error = <<"TypeError",
                          IF call.args[2] \in {Absent, None}
                          THEN InputTypeError ELSE InputAndOutputTypeError>>
        /\ call.result = NoResult
        /\ ~call.nullArgument
        /\ ~call.invoked
        /\ \A i \in DOMAIN call.released : call.released[i] <= 1

\* the paths on which both conversions succeed, which are as the claim has them
ConvertedPathsRelease ==
    (call.op = "Preconditioner_inverse" /\ call.args[1] # Absent /\ ~FailedConversion) =>
        /\ ~call.nullArgument
        /\ call.invoked
        /\ \A i \in DOMAIN call.released : call.released[i] = 1
        /\ call.error # NoError => call.error[1] = "RuntimeError" /\ call.result = NoResult

============================================================================
